---- MODULE Spec2Model ----
(***************************************************************************)
(* Model of pregen.py: the pre-generation driver (pregen), the process     *)
(* supervisor (run_server), the level.dat accessors and the clean / run    *)
(* commands.  The server process itself is the environment: each launch    *)
(* yields an exit status and a console output, abstracted to the set of    *)
(* marker strings the output contains.                                     *)
(***************************************************************************)
EXTENDS Integers, FiniteSets, Sequences, TLC

\* ------------------------------------------------------- program constants
spawn_chunk_diameter == 19
WINDOW_MAX_ATTEMPTS == 10
DEFAULT_MAX_ATTEMPTS == 1

\* ------------------------------------------------------------------ bounds
MaxSeed == 2
MaxInvocations == 2
MaxPlanRadius == 28
MaxPlanCoord == 17
MaxLookups == 3


\* The optional seed argument: None, or a set holding the one value.
None == {}
Some(v) == {v}

Seeds == 1..MaxSeed
SeedArgs == {None} \cup {Some(s) : s \in Seeds}
\* Block coordinates of the requested center, and the spawn points a world
\* can hold before the tool touches it.
DriverCenters == {<<-17, 8>>}
\* The smallest radius, and the smallest that needs two windows per axis.
DriverRadii == {0, spawn_chunk_diameter \div 2 + 1}
WorldSpawns == {<<0, 0>>, <<-40, 72>>}
PlanCoords == (-MaxPlanCoord)..MaxPlanCoord

\* Console output, as the set of known substrings it contains.
SUCCESS_MARKER == "For help, type \"help\""
EULA_MESSAGE == "You need to agree to the EULA in order to run the server"
OLD_WORLD_MESSAGE == "This world must be opened in an older version (like 1.6.4) to be safely converted"
error_messages == {EULA_MESSAGE, OLD_WORLD_MESSAGE}
Outputs == SUBSET ({SUCCESS_MARKER} \cup error_messages)
\* Exit statuses of the child process (check = True raises on non-zero).
ExitCodes == {0, 1}

VARIABLES
    cmd, pc, ret,
    seed, center_spawn_x, center_spawn_z, chunk_radius,
    final_spawn_x, final_spawn_z,
    step_diameter, min_spawn_chunk_x, min_spawn_chunk_z, total_steps, dx, dz, i,
    attempt, max_attempts, launches, exit_code, stdout, outcome,
    level_dat, world_data, server_properties,
    invocations, pre, prev, visited,
    spawn_writes, seed_writes, final_writes, runs_ok, last_spawn_write,
    cleaned, props_written, launched, created,
    cache, disk_cache, requests, calls, underlying, lookups, last_result

argVars == <<seed, center_spawn_x, center_spawn_z, chunk_radius>>
finalVars == <<final_spawn_x, final_spawn_z>>
planVars == <<step_diameter, min_spawn_chunk_x, min_spawn_chunk_z, total_steps>>
loopVars == <<dx, dz, i>>
srvVars == <<attempt, max_attempts, launches, exit_code, stdout, outcome>>
fsVars == <<level_dat, world_data, server_properties>>
histVars == <<invocations, pre, prev>>
countVars == <<visited, spawn_writes, seed_writes, final_writes, runs_ok,
               last_spawn_write, cleaned, props_written, launched, created>>
\* The version lookups: each decorated function's cache dictionary, the JSON
\* files of the cache directory, and what the process has fetched, called
\* and returned so far.
cacheVars == <<cache, disk_cache, requests, calls, underlying, lookups, last_result>>
vars == <<cmd, pc, ret, argVars, finalVars, planVars, loopVars, srvVars, fsVars,
          histVars, countVars, cacheVars>>

\* ------------------------------------------------------------- level.dat
NoFile == [exists |-> FALSE, seed |-> 0, legacy |-> FALSE, SpawnX |-> 0, SpawnZ |-> 0]
LevelDat(s, legacy, sp) ==
    [exists |-> TRUE, seed |-> s, legacy |-> legacy, SpawnX |-> sp[1], SpawnZ |-> sp[2]]

level_dat_get_seed(ld) == ld.seed

level_dat_get_spawn_pos(ld) == <<ld.SpawnX, ld.SpawnZ>>

level_dat_set_spawn_posSwapped(ld, spawn_x, spawn_z) ==
    [ld EXCEPT !.SpawnX = spawn_z, !.SpawnZ = spawn_x]
level_dat_set_spawn_pos(ld, spawn_x, spawn_z) ==
    [ld EXCEPT !.SpawnX = spawn_x, !.SpawnZ = spawn_z]

\* nbtlib.load opens the file: it fails when there is none.
CanLoadAlways(ld) == TRUE
CanLoad(ld) == ld.exists

\* Only a save with the RandomSeed field can be patched.
CanSetSeedAlways(ld) == TRUE
CanSetSeed(ld) == ld.legacy
level_dat_set_seedNoop(ld, s) == ld
level_dat_set_seed(ld, s) == [ld EXCEPT !.seed = s]

\* The files the tool works on, and what clean() and the level-seed line do
\* to them: clean() empties the server directory (server.properties with it)
\* and the world directory.
Files == [level_dat |-> level_dat, world_data |-> world_data,
          server_properties |-> server_properties]
clean(fs) == [level_dat |-> NoFile, world_data |-> FALSE, server_properties |-> None]
WriteLevelSeed(fs, s) == [fs EXCEPT !.server_properties = s]
\* pregen's preparation of the run that is to create the world.
SeedSetupReversed(fs, s) == clean(WriteLevelSeed(fs, s))
SeedSetup(fs, s) == WriteLevelSeed(clean(fs), s)

\* The loop variables of the window after (x, z) in an n by n grid: dz is the
\* inner loop.
NextWindowColumns(x, z, n) == IF x + 1 < n THEN <<x + 1, z>> ELSE <<0, z + 1>>
NextWindow(x, z, n) == IF z + 1 < n THEN <<x, z + 1>> ELSE <<x + 1, 0>>

\* ---------------------------------------------------------------- tiling
CeilDiv(a, b) == IF a % b = 0 THEN a \div b ELSE (a \div b) + 1
Max(a, b) == IF a >= b THEN a ELSE b

StepDiameterFloor(r) == Max((r * 2 + 1) \div spawn_chunk_diameter, 1)
StepDiameter(r) == Max(CeilDiv(r * 2 + 1, spawn_chunk_diameter), 1)

\* x >> 4 on a Python int: floor division by 16.
ShiftRight4Trunc(x) == IF x >= 0 THEN x \div 16 ELSE -((-x) \div 16)
ShiftRight4(x) == x \div 16

MinSpawnChunk(center_chunk, n) ==
    IF spawn_chunk_diameter % 2 = 0
    THEN center_chunk - ((n - 1) * spawn_chunk_diameter) \div 2
    ELSE center_chunk - (n \div 2) * spawn_chunk_diameter

OffsetSpawn(min_chunk, d) == (min_chunk + d * spawn_chunk_diameter) * 16 + 8

\* ------------------------------------------------------- classification
ClassifySuccessFirst(out) ==
    IF SUCCESS_MARKER \in out THEN "Success"
    ELSE IF out \cap error_messages # {} THEN "FatalFailure"
    ELSE "TransientFailure"
Classify(out) ==
    IF \E error_message \in error_messages : error_message \in out THEN "FatalFailure"
    ELSE IF SUCCESS_MARKER \in out THEN "Success"
    ELSE "TransientFailure"

\* What one launch comes to: check = True turns a non-zero exit status into
\* CalledProcessError before the output is looked at.
AttemptResultNoCheck(code, out) == Classify(out)
AttemptResult(code, out) == IF code # 0 THEN "ProcessError" ELSE Classify(out)

\* Where run_server goes after attempt number a (from 0) of n, called from the
\* code that resumes at r: break on success, the next pass or the else clause
\* after an attempt without the marker, the exception otherwise.
AfterAttemptOneMore(result, a, n, r) ==
    CASE result = "Success" -> r
      [] result = "TransientFailure" -> IF a + 1 <= n THEN "run_server" ELSE "raised"
      [] OTHER -> "raised"
AfterAttemptRetryFatal(result, a, n, r) ==
    CASE result = "Success" -> r
      [] result \in {"TransientFailure", "FatalFailure"} ->
            IF a + 1 < n THEN "run_server" ELSE "raised"
      [] OTHER -> "raised"
AfterAttemptSkip(result, a, n, r) ==
    CASE result = "Success" -> r
      [] result = "TransientFailure" -> IF a + 1 < n THEN "run_server" ELSE r
      [] OTHER -> "raised"
AfterAttempt(result, a, n, r) ==
    CASE result = "Success" -> r
      [] result = "TransientFailure" -> IF a + 1 < n THEN "run_server" ELSE "raised"
      [] OTHER -> "raised"

\* ------------------------------------------------------------ environment
\* What a server run that came up leaves on disk: an existing level.dat keeps
\* its seed and spawn; a missing one is created, with the configured seed or
\* one of the server's own choosing, in either save format.
ServerWorld(ld) ==
    IF ld.exists THEN {ld}
    ELSE {LevelDat(s, lg, sp) : s \in Seeds, lg \in BOOLEAN, sp \in WorldSpawns}

Worlds == {NoFile} \cup ServerWorld(NoFile)

NoPrev == [ok |-> FALSE, seed |-> None, pre_spawn |-> <<0, 0>>,
           end_spawn |-> <<0, 0>>, seed_writes |-> 0]

\* The last command, as the next one finds it: a pregen with a seed that ran
\* to completion on a world already holding that seed, or anything else.
Summary ==
    IF cmd = "pregen" /\ pc = "done" /\ seed # None /\ pre.exists /\ Some(pre.seed) = seed
    THEN [ok |-> TRUE, seed |-> seed, pre_spawn |-> level_dat_get_spawn_pos(pre),
          end_spawn |-> level_dat_get_spawn_pos(level_dat), seed_writes |-> seed_writes]
    ELSE NoPrev

Terminal == {"idle", "done", "returned", "raised"}

\* -------------------------------------------------------- version lookups
\* Version identifiers are strings, modelled as sequences of characters.
Versions == {<<"1">>, <<"1", "0">>, <<"b">>}

MANIFEST_URL == "https://piston-meta.mojang.com/mc/game/version_manifest_v2.json"
ARCHIVE_URL == "https://files.betacraft.uk/server-archive/"
MANIFEST_FILE == "version_manifest_v2.json"
ARCHIVE_FILE == "archived_versions.json"

\* What the remote services hold: the manifest's "versions" list, each
\* version json's downloads.server.url (absent for "1"), the archive's jars.
RemoteManifest == {[id |-> <<"1">>, url |-> "1.json"],
                   [id |-> <<"1", "0">>, url |-> "10.json"]}
RemoteServerUrl(url) == IF url = "10.json" THEN Some("10/server.jar") ELSE None
RemoteArchive == {<<<<"b">>, "b.jar">>}
Urls == {MANIFEST_URL, ARCHIVE_URL} \cup {v.url : v \in RemoteManifest}

MemoizedFunctions == {"get_version_manifest", "get_official_version_json_urls",
                      "get_official_version_server_url", "get_archived_versions"}

\* key = tuple(*args): the empty tuple for no argument, the characters of
\* the string for one string argument.
Key(args) == IF args = <<>> THEN <<>> ELSE args[1]

CallKeys ==
    {<<f, Key(<<>>)>> : f \in MemoizedFunctions \ {"get_official_version_server_url"}}
        \cup {<<"get_official_version_server_url", Key(<<v>>)>> : v \in Versions}

\* The state the lookups read and write, passed through the nested calls.
Memo == [cache |-> cache, disk_cache |-> disk_cache, requests |-> requests,
         calls |-> calls, underlying |-> underlying]

\* A mapping held as a set of <<key, value>> pairs.
Has(map, key) == \E e \in map : e[1] = key
Get(map, key) == (CHOOSE e \in map : e[1] = key)[2]

\* The wrapper make_cached returns: a stored key is answered from the cache,
\* anything else by the wrapped function.  Nothing is stored into the cache.
\* `miss` is what func(*args) gives, run from Invoked(st, f, args).
Called(st, f, args) == [st EXCEPT !.calls[<<f, Key(args)>>] = @ + 1]
Invoked(st, f, args) == [Called(st, f, args) EXCEPT !.underlying[<<f, Key(args)>>] = @ + 1]
decorated(st, f, args, miss) ==
    LET key == Key(args)
    IN  IF Has(st.cache[f], key)
        THEN [st |-> Called(st, f, args), val |-> Get(st.cache[f], key)]
        ELSE miss

\* The JSON file if it is there; else the getter's data, written to the file.
get_cached_json(st, cached_path, url, data) ==
    IF cached_path \in st.disk_cache
    THEN [st |-> st, val |-> data]
    ELSE [st |-> [st EXCEPT !.requests[url] = @ + 1,
                            !.disk_cache = @ \cup {cached_path}],
          val |-> data]

get_version_manifest_func(st, args) ==
    get_cached_json(st, MANIFEST_FILE, MANIFEST_URL, RemoteManifest)
get_version_manifest(st) ==
    decorated(st, "get_version_manifest", <<>>,
              get_version_manifest_func(Invoked(st, "get_version_manifest", <<>>), <<>>))

get_official_version_json_urls_func(st, args) ==
    LET r == get_version_manifest(st)
    IN  [st |-> r.st, val |-> {<<version.id, version.url>> : version \in r.val}]
get_official_version_json_urls(st) ==
    decorated(st, "get_official_version_json_urls", <<>>,
              get_official_version_json_urls_func(Invoked(st, "get_official_version_json_urls", <<>>), <<>>))

get_official_version_server_url_func(st, args) ==
    LET version == args[1]
        r == get_official_version_json_urls(st)
    IN  IF ~Has(r.val, version)
        THEN [st |-> r.st, val |-> None]
        ELSE LET version_json_url == Get(r.val, version)
             IN  [st |-> [r.st EXCEPT !.requests[version_json_url] = @ + 1],
                  val |-> RemoteServerUrl(version_json_url)]
get_official_version_server_url(st, version) ==
    decorated(st, "get_official_version_server_url", <<version>>,
              get_official_version_server_url_func(Invoked(st, "get_official_version_server_url", <<version>>), <<version>>))

get_archived_versions_func(st, args) ==
    get_cached_json(st, ARCHIVE_FILE, ARCHIVE_URL, RemoteArchive)
get_archived_versions(st) ==
    decorated(st, "get_archived_versions", <<>>,
              get_archived_versions_func(Invoked(st, "get_archived_versions", <<>>), <<>>))

\* ------------------------------------------------------------------ state
Init ==
    /\ cmd = "none" /\ pc = "idle" /\ ret = "none"
    /\ seed = None /\ center_spawn_x = 0 /\ center_spawn_z = 0 /\ chunk_radius = 0
    /\ final_spawn_x = 0 /\ final_spawn_z = 0
    /\ step_diameter = 0 /\ min_spawn_chunk_x = 0 /\ min_spawn_chunk_z = 0
    /\ total_steps = 0 /\ dx = 0 /\ dz = 0 /\ i = 0
    /\ attempt = 0 /\ max_attempts = 0 /\ launches = 0
    /\ exit_code = 0 /\ stdout = {} /\ outcome = "none"
    /\ level_dat \in Worlds
    /\ world_data = level_dat.exists
    /\ server_properties = None
    /\ invocations = 0 /\ pre = level_dat /\ prev = NoPrev
    /\ visited = {} /\ spawn_writes = 0 /\ seed_writes = 0 /\ final_writes = 0
    /\ runs_ok = 0 /\ last_spawn_write = "none"
    /\ cleaned = FALSE /\ props_written = FALSE /\ launched = FALSE
    /\ created = NoFile
    /\ cache = [f \in MemoizedFunctions |-> {}]
    /\ disk_cache = {}
    /\ requests = [u \in Urls |-> 0]
    /\ calls = [k \in CallKeys |-> 0]
    /\ underlying = [k \in CallKeys |-> 0]
    /\ lookups = 0 /\ last_result = None

\* A new process starts: every local of the previous command is gone, the
\* files stay.
StartCommand(name) ==
    /\ pc \in Terminal
    /\ cmd' = name
    /\ invocations' = invocations + 1
    /\ pre' = level_dat
    /\ prev' = Summary
    /\ step_diameter' = 0 /\ min_spawn_chunk_x' = 0 /\ min_spawn_chunk_z' = 0
    /\ total_steps' = 0 /\ dx' = 0 /\ dz' = 0 /\ i' = 0
    /\ created' = NoFile
    /\ visited' = {} /\ spawn_writes' = 0 /\ seed_writes' = 0 /\ final_writes' = 0
    /\ runs_ok' = 0 /\ last_spawn_write' = "none"
    /\ UNCHANGED cacheVars

\* run_server(server_jar_path, max_attempts = n), entered from the caller
\* that resumes at r.
CallRunServer(n, r) ==
    /\ pc' = "run_server" /\ ret' = r
    /\ attempt' = 0 /\ max_attempts' = n /\ launches' = 0
    /\ exit_code' = 0 /\ stdout' = {} /\ outcome' = "none"

\* No run_server frame is live: its locals are gone.
NoCall ==
    /\ attempt' = 0 /\ max_attempts' = 0 /\ launches' = 0 /\ ret' = "none"
    /\ exit_code' = 0 /\ stdout' = {} /\ outcome' = "none"

\* ------------------------------------------------------------------ clean
Clean ==
    /\ invocations < MaxInvocations
    /\ StartCommand("clean")
    /\ seed' = None /\ center_spawn_x' = 0 /\ center_spawn_z' = 0 /\ chunk_radius' = 0
    /\ final_spawn_x' = 0 /\ final_spawn_z' = 0
    /\ level_dat' = clean(Files).level_dat
    /\ world_data' = clean(Files).world_data
    /\ server_properties' = clean(Files).server_properties
    /\ cleaned' = TRUE /\ props_written' = FALSE /\ launched' = FALSE
    /\ pc' = "done"
    /\ NoCall

\* -------------------------------------------------------------------- run
Run ==
    /\ invocations < MaxInvocations
    /\ StartCommand("run")
    /\ seed' = None /\ center_spawn_x' = 0 /\ center_spawn_z' = 0 /\ chunk_radius' = 0
    /\ final_spawn_x' = 0 /\ final_spawn_z' = 0
    /\ cleaned' = FALSE /\ props_written' = FALSE /\ launched' = FALSE
    /\ CallRunServer(DEFAULT_MAX_ATTEMPTS, "done")
    /\ UNCHANGED fsVars

\* ----------------------------------------------------------------- pregen
\* Where pregen goes once it has compared the existing world's seed.
AfterSeedCompareIgnore(current_seed, s) == "plan"
AfterSeedCompare(current_seed, s) ==
    IF Some(current_seed) # s THEN "returned" ELSE "plan"

\* The spawn pregen records for the end when the world's seed is the one
\* asked for.
RecordedSpawnDefault(ld) == <<0, 0>>
RecordedSpawn(ld) == level_dat_get_spawn_pos(ld)

PregenCall(s, x, z, r) ==
    /\ StartCommand("pregen")
    /\ seed' = s /\ center_spawn_x' = x /\ center_spawn_z' = z /\ chunk_radius' = r
    /\ IF s # None /\ ~level_dat.exists
       THEN \* clean(), level-seed written, one server run
            /\ level_dat' = SeedSetup(Files, s).level_dat
            /\ world_data' = SeedSetup(Files, s).world_data
            /\ server_properties' = SeedSetup(Files, s).server_properties
            /\ cleaned' = TRUE /\ props_written' = TRUE /\ launched' = FALSE
            /\ final_spawn_x' = 0 /\ final_spawn_z' = 0
            /\ CallRunServer(DEFAULT_MAX_ATTEMPTS, "seed_check")
       ELSE /\ UNCHANGED fsVars
            /\ cleaned' = FALSE /\ props_written' = FALSE /\ launched' = FALSE
            /\ NoCall
            /\ pc' = IF s = None THEN "plan"
                     ELSE AfterSeedCompare(level_dat_get_seed(level_dat), s)
            /\ IF s # None /\ Some(level_dat_get_seed(level_dat)) = s
               THEN /\ final_spawn_x' = RecordedSpawn(level_dat)[1]
                    /\ final_spawn_z' = RecordedSpawn(level_dat)[2]
               ELSE /\ final_spawn_x' = 0 /\ final_spawn_z' = 0

Pregen ==
    /\ invocations < MaxInvocations
    /\ \E s \in SeedArgs, c \in DriverCenters, r \in DriverRadii :
          PregenCall(s, c[1], c[2], r)

\* ------------------------------------------------------------- run_server
\* One pass of the attempt loop: the child is launched, exits with `code`
\* and has printed `out`.
RunServerAttempt(code, out) ==
    LET result == AttemptResult(code, out)
    IN  /\ pc = "run_server"
        /\ attempt < max_attempts
        /\ launches' = launches + 1
        /\ launched' = TRUE
        /\ exit_code' = code
        /\ outcome' = result
        /\ stdout' = IF result = "ProcessError" THEN stdout ELSE out
        /\ pc' = AfterAttempt(result, attempt, max_attempts, ret)
        /\ attempt' = IF result = "TransientFailure" THEN attempt + 1 ELSE attempt
        /\ IF result = "Success"
           THEN /\ level_dat' \in ServerWorld(level_dat)
                /\ world_data' = TRUE
                /\ created' = IF level_dat.exists THEN created ELSE level_dat'
                /\ runs_ok' = IF ret = "window_done" THEN runs_ok + 1 ELSE runs_ok
           ELSE UNCHANGED <<level_dat, world_data, runs_ok, created>>
        /\ UNCHANGED <<cmd, ret, argVars, finalVars, planVars, loopVars, max_attempts,
                       server_properties, histVars, visited, spawn_writes, seed_writes,
                       final_writes, last_spawn_write, cleaned, props_written,
                       cacheVars>>

RunServer == \E code \in ExitCodes, out \in Outputs : RunServerAttempt(code, out)

\* --------------------------------------------------- seed reconciliation
\* After the run made with level-seed in server.properties.
SeedCheck ==
    /\ pc = "seed_check"
    /\ NoCall
    /\ UNCHANGED <<cmd, argVars, planVars, loopVars, server_properties,
                   histVars, visited, spawn_writes, final_writes, runs_ok,
                   last_spawn_write, cleaned, props_written, launched, created,
                   cacheVars>>
    /\ IF Some(level_dat_get_seed(level_dat)) = seed
       THEN /\ final_spawn_x' = RecordedSpawn(level_dat)[1]
            /\ final_spawn_z' = RecordedSpawn(level_dat)[2]
            /\ pc' = "plan"
            /\ UNCHANGED <<level_dat, world_data, seed_writes>>
       ELSE IF CanSetSeed(level_dat)
       THEN /\ level_dat' = level_dat_set_seed(level_dat, CHOOSE s \in seed : TRUE)
            /\ seed_writes' = seed_writes + 1
            /\ world_data' = FALSE
            /\ pc' = "plan"
            /\ UNCHANGED finalVars
       ELSE \* "Can't set seed through level.dat for new versions"
            /\ pc' = "raised"
            /\ UNCHANGED <<level_dat, world_data, seed_writes, finalVars>>

\* ----------------------------------------------------------------- tiling
Plan ==
    /\ pc = "plan"
    /\ step_diameter' = StepDiameter(chunk_radius)
    /\ min_spawn_chunk_x' = MinSpawnChunk(ShiftRight4(center_spawn_x), step_diameter')
    /\ min_spawn_chunk_z' = MinSpawnChunk(ShiftRight4(center_spawn_z), step_diameter')
    /\ i' = 0
    /\ total_steps' = step_diameter' * step_diameter'
    /\ dx' = 0 /\ dz' = 0
    /\ pc' = "set_spawn"
    /\ UNCHANGED <<cmd, ret, argVars, finalVars, srvVars, fsVars, histVars, countVars,
                   cacheVars>>

\* The head of one pass of the window loop: the spawn is moved to the window
\* and run_server(max_attempts = 10) is entered.
SetSpawn ==
    /\ pc = "set_spawn"
    /\ UNCHANGED <<cmd, argVars, finalVars, planVars, loopVars,
                   world_data, server_properties, histVars, seed_writes, final_writes,
                   runs_ok, cleaned, props_written, launched, created, cacheVars>>
    /\ IF CanLoad(level_dat)
       THEN /\ level_dat' = level_dat_set_spawn_pos(level_dat,
                                OffsetSpawn(min_spawn_chunk_x, dx),
                                OffsetSpawn(min_spawn_chunk_z, dz))
            /\ visited' = visited \cup {<<min_spawn_chunk_x + dx * spawn_chunk_diameter,
                                          min_spawn_chunk_z + dz * spawn_chunk_diameter>>}
            /\ spawn_writes' = spawn_writes + 1
            /\ last_spawn_write' = "window"
            /\ CallRunServer(WINDOW_MAX_ATTEMPTS, "window_done")
       ELSE \* nbtlib.load fails on the missing file
            /\ pc' = "raised"
            /\ NoCall
            /\ UNCHANGED <<level_dat, visited, spawn_writes, last_spawn_write>>

\* Where the loops go after window number n of total.
AfterWindowEarly(n, total) == "final"
AfterWindow(n, total) == IF n < total THEN "set_spawn" ELSE "final"

\* The tail of the pass: the progress counter, then the next (dx, dz).
WindowDone ==
    /\ pc = "window_done"
    /\ i' = i + 1
    /\ dx' = NextWindow(dx, dz, step_diameter)[1]
    /\ dz' = NextWindow(dx, dz, step_diameter)[2]
    /\ pc' = AfterWindow(i', total_steps)
    /\ NoCall
    /\ UNCHANGED <<cmd, argVars, finalVars, planVars, fsVars, histVars, countVars,
                   cacheVars>>

\* After the loops: the recorded spawn is written back.
FinalWrite ==
    /\ pc = "final"
    /\ IF CanLoad(level_dat)
       THEN /\ level_dat' = level_dat_set_spawn_pos(level_dat, final_spawn_x, final_spawn_z)
            /\ spawn_writes' = spawn_writes + 1
            /\ final_writes' = final_writes + 1
            /\ last_spawn_write' = "final"
            /\ pc' = "done"
       ELSE /\ pc' = "raised"
            /\ UNCHANGED <<level_dat, spawn_writes, final_writes, last_spawn_write>>
    /\ UNCHANGED <<cmd, ret, argVars, finalVars, planVars, loopVars, srvVars, world_data,
                   server_properties, histVars, visited, seed_writes, runs_ok, cleaned,
                   props_written, launched, created, cacheVars>>

\* ------------------------------------------------------------------ specs
Next == Clean \/ Run \/ Pregen \/ RunServer \/ SeedCheck \/ Plan \/ SetSpawn
           \/ WindowDone \/ FinalWrite

Spec == Init /\ [][Next]_vars

\* The tiling alone: pregen without a seed on an existing world, every server
\* run coming up at once, over a wider range of centers and radii.
InitPlan == Init /\ level_dat = LevelDat(1, TRUE, <<-40, 72>>)

PlanPregen ==
    /\ invocations < 1
    /\ \E x \in PlanCoords, z \in PlanCoords, r \in 0..MaxPlanRadius :
          PregenCall(None, x, z, r)

PlanRunServer == RunServerAttempt(0, {SUCCESS_MARKER})

NextPlan == PlanPregen \/ Plan \/ SetSpawn \/ PlanRunServer \/ WindowDone \/ FinalWrite

SpecPlan == InitPlan /\ [][NextPlan]_vars

\* The version lookups of one process, called in any order; the driver is
\* idle.  A new process starts with empty caches and finds the JSON files
\* the earlier ones left.
InitCache == Init /\ level_dat = NoFile

\* One call returns: its effects and its value are taken over.
Returned(r) ==
    /\ lookups < MaxLookups
    /\ lookups' = lookups + 1
    /\ cache' = r.st.cache
    /\ disk_cache' = r.st.disk_cache
    /\ requests' = r.st.requests
    /\ calls' = r.st.calls
    /\ underlying' = r.st.underlying
    /\ last_result' = r.val
    /\ UNCHANGED <<cmd, pc, ret, argVars, finalVars, planVars, loopVars, srvVars,
                   fsVars, histVars, countVars>>

GetVersionManifest == Returned(get_version_manifest(Memo))
GetOfficialVersionJsonUrls == Returned(get_official_version_json_urls(Memo))
GetOfficialVersionServerUrl ==
    \E version \in Versions : Returned(get_official_version_server_url(Memo, version))
GetArchivedVersions == Returned(get_archived_versions(Memo))

NewProcess ==
    /\ lookups > 0
    /\ cache' = [f \in MemoizedFunctions |-> {}]
    /\ requests' = [u \in Urls |-> 0]
    /\ calls' = [k \in CallKeys |-> 0]
    /\ underlying' = [k \in CallKeys |-> 0]
    /\ lookups' = 0 /\ last_result' = None
    /\ UNCHANGED <<cmd, pc, ret, argVars, finalVars, planVars, loopVars, srvVars,
                   fsVars, histVars, countVars, disk_cache>>

NextCache == GetVersionManifest \/ GetOfficialVersionJsonUrls
                \/ GetOfficialVersionServerUrl \/ GetArchivedVersions \/ NewProcess

SpecCache == InitCache /\ [][NextCache]_vars

\* ------------------------------------------------------------ properties
Abs(n) == IF n >= 0 THEN n ELSE -n
HalfWindow == spawn_chunk_diameter \div 2

\* pregen is past the computation of the grid.
Planned ==
    /\ cmd = "pregen"
    /\ \/ pc \in {"set_spawn", "window_done", "final", "done"}
       \/ pc = "run_server" /\ ret = "window_done"

\* The chunk holding block coordinate b, as the unique c with 16c <= b < 16c + 16.
ChunkOf(b) == CHOOSE c \in (-(Abs(b) + 16))..(Abs(b) + 16) : 16 * c <= b /\ b < 16 * c + 16

\* C1: when pregen has completed, every chunk within chunk_radius of the
\* center's chunk on both axes lies in the 19x19 square around the anchor of
\* some window that was visited.
C1_Coverage ==
    (cmd = "pregen" /\ pc = "done") =>
        \A cx \in (ChunkOf(center_spawn_x) - chunk_radius)..(ChunkOf(center_spawn_x) + chunk_radius),
           cz \in (ChunkOf(center_spawn_z) - chunk_radius)..(ChunkOf(center_spawn_z) + chunk_radius) :
            \E a \in visited : Abs(cx - a[1]) <= HalfWindow /\ Abs(cz - a[2]) <= HalfWindow

\* C2: the number of windows per axis is the least n >= 1 with
\* 19 * n >= 2 * chunk_radius + 1 (1 for radius 0 and 9, 2 for radius 10), the
\* planned total is its square, and a completed pregen visited that many.
C2_StepDiameter ==
    Planned =>
        /\ step_diameter >= 1
        /\ spawn_chunk_diameter * step_diameter >= 2 * chunk_radius + 1
        /\ step_diameter > 1 => spawn_chunk_diameter * (step_diameter - 1) < 2 * chunk_radius + 1
        /\ chunk_radius \in {0, 9} => step_diameter = 1
        /\ chunk_radius = 10 => step_diameter = 2
        /\ total_steps = step_diameter * step_diameter
        /\ pc = "done" => Cardinality(visited) = step_diameter * step_diameter

C2_Witness ==
    /\ Planned /\ pc = "done"
    /\ chunk_radius = 10 /\ step_diameter = 2 /\ Cardinality(visited) = 4

\* C3: with an odd number of windows per axis, the spawn written for the middle
\* window (index (step_diameter - 1) / 2 on each axis) is the +8 block of the
\* chunk that holds the requested center, also for negative coordinates.
AtMiddleWindow ==
    /\ Planned /\ pc = "run_server"
    /\ step_diameter % 2 = 1
    /\ dx = (step_diameter - 1) \div 2 /\ dz = (step_diameter - 1) \div 2

C3_CenterOdd ==
    AtMiddleWindow =>
        /\ level_dat.SpawnX = 16 * ChunkOf(center_spawn_x) + 8
        /\ level_dat.SpawnZ = 16 * ChunkOf(center_spawn_z) + 8

C3_Witness ==
    /\ AtMiddleWindow /\ step_diameter = 3
    /\ center_spawn_x = -17 /\ center_spawn_z = 5
    /\ level_dat.SpawnX = -24 /\ level_dat.SpawnZ = 8

\* C4: with an even number of windows per axis, the center's chunk touches the
\* boundary between the two middle windows on each axis: it is the last chunk
\* of the lower one or the first chunk of the upper one.
OnMiddleBoundary(center_chunk, min_chunk) ==
    LET h == step_diameter \div 2
    IN  center_chunk \in {min_chunk + (h - 1) * spawn_chunk_diameter + HalfWindow,
                          min_chunk + h * spawn_chunk_diameter - HalfWindow}

C4_CenterEven ==
    (Planned /\ step_diameter % 2 = 0) =>
        /\ OnMiddleBoundary(ChunkOf(center_spawn_x), min_spawn_chunk_x)
        /\ OnMiddleBoundary(ChunkOf(center_spawn_z), min_spawn_chunk_z)

\* pregen was given a seed and found a world with another one.
SeedConflict == cmd = "pregen" /\ seed # None /\ pre.exists /\ Some(pre.seed) # seed
\* pregen was given a seed and found a world that holds it.
SeedMatch == cmd = "pregen" /\ seed # None /\ pre.exists /\ Some(pre.seed) = seed
\* pregen was given a seed and found no level.dat.
SeedNoWorld == cmd = "pregen" /\ seed # None /\ ~pre.exists

\* C5: a pregen whose seed differs from the existing world's returns with
\* level.dat as it found it, and has neither written spawn or seed, nor cleaned
\* the directories, nor written server.properties, nor launched the server.
C5_SeedConflict ==
    SeedConflict =>
        /\ pc = "returned"
        /\ level_dat = pre
        /\ spawn_writes = 0 /\ seed_writes = 0
        /\ ~cleaned /\ ~props_written /\ ~launched /\ launches = 0

C5_Witness ==
    /\ SeedConflict /\ pc = "returned"
    /\ world_data /\ level_dat_get_spawn_pos(level_dat) = <<-40, 72>>

\* C6: on a world that holds the requested seed, pregen never writes the seed;
\* and when two pregen runs with that seed complete one after the other, both
\* leave the spawn the world held before the first of them.
C6_Idempotence ==
    /\ SeedMatch => (seed_writes = 0 /\ level_dat.seed = pre.seed)
    /\ (SeedMatch /\ pc = "done" /\ prev.ok /\ prev.seed = seed) =>
          /\ prev.seed_writes = 0
          /\ prev.end_spawn = prev.pre_spawn
          /\ level_dat_get_spawn_pos(level_dat) = prev.pre_spawn

C6_Witness ==
    /\ SeedMatch /\ pc = "done" /\ prev.ok /\ prev.seed = seed
    /\ prev.pre_spawn = <<-40, 72>>
    /\ chunk_radius = 10 /\ runs_ok = 4

\* C7 as stated: a completed pregen with a seed and no prior level.dat leaves
\* the spawn at (0, 0).
C7_Original ==
    (SeedNoWorld /\ pc = "done") => level_dat_get_spawn_pos(level_dat) = <<0, 0>>

\* C7, amended: such a pregen leaves the spawn of the world its first server
\* run created when that world took the seed from server.properties, and
\* (0, 0) when the seed had to be patched into level.dat.
C7_FinalSpawnNoWorld ==
    (SeedNoWorld /\ pc = "done") =>
        /\ created.exists
        /\ level_dat_get_spawn_pos(level_dat) =
              IF Some(created.seed) = seed
              THEN level_dat_get_spawn_pos(created)
              ELSE <<0, 0>>
        /\ (seed_writes = 0) <=> (Some(created.seed) = seed)

C7_Witness ==
    /\ SeedNoWorld /\ pc = "done"
    /\ Some(created.seed) = seed /\ seed_writes = 0
    /\ level_dat_get_spawn_pos(level_dat) = <<-40, 72>>

\* C8: a completed pregen on an existing world leaves the spawn that world
\* held before, with or without a seed.
C8_SpawnRestored ==
    (cmd = "pregen" /\ pc = "done" /\ pre.exists) =>
        level_dat_get_spawn_pos(level_dat) = level_dat_get_spawn_pos(pre)

\* C9: the recorded spawn is written at most once; it has been written exactly
\* once when pregen is done; and once written, every window (at least one) has
\* had its successful server run and no spawn write came after it.
C9_FinalWriteOnce ==
    cmd = "pregen" =>
        /\ final_writes <= 1
        /\ pc = "done" => final_writes = 1
        /\ final_writes = 1 =>
              /\ pc = "done"
              /\ total_steps >= 1 /\ runs_ok = total_steps
              /\ spawn_writes = total_steps + 1
              /\ last_spawn_write = "final"

C9_Witness ==
    /\ cmd = "pregen" /\ pc = "done" /\ chunk_radius = 0
    /\ total_steps = 1 /\ runs_ok = 1 /\ final_writes = 1 /\ spawn_writes = 2

\* C10: an attempt whose output was read is Success when it holds the success
\* marker and no fatal message, FatalFailure when it holds a fatal message
\* (marker or not), TransientFailure otherwise; run_server returns on the
\* first, raises on the second, and retries or gives up on the third.
HasFatal == stdout \cap error_messages # {}

C10_Classification ==
    (pc \in {"run_server", "raised", ret} /\ outcome \in {"Success", "FatalFailure", "TransientFailure"}) =>
        /\ (SUCCESS_MARKER \in stdout /\ ~HasFatal) => (outcome = "Success" /\ pc = ret)
        /\ HasFatal => (outcome = "FatalFailure" /\ pc = "raised")
        /\ (SUCCESS_MARKER \notin stdout /\ ~HasFatal) =>
              (outcome = "TransientFailure" /\ pc \in {"run_server", "raised"})

C10_Witness ==
    /\ outcome = "FatalFailure" /\ pc = "raised"
    /\ stdout = {SUCCESS_MARKER, EULA_MESSAGE}

\* A run_server call is live or has just ended (its locals are still there).
InRunServer == max_attempts > 0

\* C11: a run_server call launches at most max_attempts times; it is about to
\* launch again only when every attempt so far lacked the marker; after a
\* success it has returned to its caller; it has given up with the generic
\* failure exactly when all max_attempts attempts lacked the marker.  Window
\* runs are entered with max_attempts = 10, the run command and the seed run
\* with max_attempts = 1.
C11_BoundedRetry ==
    InRunServer =>
        /\ launches <= max_attempts
        /\ (pc = "run_server") =>
              /\ launches < max_attempts /\ attempt = launches
              /\ launches > 0 => outcome = "TransientFailure"
        /\ (outcome = "Success") => (pc = ret /\ launches = attempt + 1)
        /\ (outcome = "TransientFailure" /\ pc = "raised") <=> (attempt = max_attempts)
        /\ (attempt = max_attempts) => launches = max_attempts
        /\ (ret = "window_done") => max_attempts = 10
        /\ (ret \in {"seed_check", "done"}) => max_attempts = 1

C11_Witness ==
    /\ pc = "raised" /\ outcome = "TransientFailure" /\ ret = "window_done"
    /\ launches = 10 /\ attempt = 10

\* C12: an attempt whose output holds a fatal message ends the run_server call
\* with an exception at once: it is the call's last launch, whatever is left
\* of max_attempts.
C12_FatalImmediate ==
    (InRunServer /\ exit_code = 0 /\ HasFatal) =>
        /\ pc = "raised"
        /\ outcome = "FatalFailure"
        /\ launches = attempt + 1

C12_Witness ==
    /\ InRunServer /\ HasFatal /\ pc = "raised"
    /\ launches = 3 /\ max_attempts = 10

\* The block coordinate pregen gives the spawn for window d of an axis.
AnchorBlock(min_chunk, d) == 16 * (min_chunk + spawn_chunk_diameter * d) + 8

\* The run_server call of a window has failed: an exception, or no attempt left.
WindowRunFailed ==
    /\ cmd = "pregen" /\ ret = "window_done"
    /\ \/ outcome \in {"FatalFailure", "ProcessError"}
       \/ outcome = "TransientFailure" /\ attempt = max_attempts

\* C13: when a window's run_server call fails pregen stops there: the spawn
\* stays at that window's anchor, the windows after it get neither a spawn
\* write nor a server run, and the recorded spawn is not written back.
C13_AbortAtWindow ==
    WindowRunFailed =>
        /\ pc = "raised"
        /\ final_writes = 0
        /\ spawn_writes = i + 1 /\ Cardinality(visited) = i + 1
        /\ runs_ok = i
        /\ last_spawn_write = "window"
        /\ level_dat.SpawnX = AnchorBlock(min_spawn_chunk_x, dx)
        /\ level_dat.SpawnZ = AnchorBlock(min_spawn_chunk_z, dz)

C13_Witness ==
    /\ WindowRunFailed /\ pc = "raised"
    /\ outcome = "TransientFailure" /\ total_steps = 4 /\ i = 1
    /\ final_writes = 0 /\ spawn_writes = 2

\* C18: a launch that ends with a non-zero exit status is not classified from
\* its output and ends the run_server call with an exception at once: it is the
\* call's last launch, whatever is left of max_attempts.
C18_ProcessError ==
    (InRunServer /\ exit_code # 0) =>
        /\ outcome = "ProcessError"
        /\ pc = "raised"
        /\ launches = attempt + 1

C18_Witness ==
    /\ InRunServer /\ exit_code # 0 /\ pc = "raised"
    /\ launches = 2 /\ max_attempts = 10

\* The seed run of a pregen without a prior world came up with another seed
\* in a save that has no RandomSeed field, and the seed check has been made.
UnsupportedPatch ==
    /\ SeedNoWorld /\ created.exists
    /\ Some(created.seed) # seed /\ ~created.legacy
    /\ pc # "seed_check"

\* C14 as stated: in that case pregen surfaces no error before the window
\* loop: it discards the world data, keeps level.dat and goes on to the windows.
C14_Original ==
    UnsupportedPatch =>
        /\ ~(pc = "raised" /\ spawn_writes = 0)
        /\ pc \in {"plan", "set_spawn"} => ~world_data

\* C14, amended: in that case pregen ends with the error of level_dat_set_seed:
\* no world data is discarded, level.dat stays as the server wrote it (with the
\* other seed), no window spawn is written and no further server run is made.
C14_UnsupportedRaises ==
    UnsupportedPatch =>
        /\ pc = "raised"
        /\ level_dat = created /\ world_data
        /\ seed_writes = 0 /\ spawn_writes = 0 /\ runs_ok = 0
        /\ ~InRunServer

C14_Witness ==
    /\ UnsupportedPatch /\ pc = "raised"
    /\ world_data /\ Some(level_dat.seed) # seed

\* C15: a pregen with a seed and no level.dat has cleaned the directories and
\* then written level-seed, so that server.properties holds the requested seed
\* from the seed run on; the seed run is entered on an empty world with
\* max_attempts = 1 and has launched exactly once when the seed is read; and
\* no window spawn is written before the seed check, after which level.dat
\* exists and holds the requested seed.
InSeedRun == pc = "run_server" /\ ret = "seed_check"

C15_ReconcileOrder ==
    SeedNoWorld =>
        /\ cleaned /\ props_written
        /\ server_properties = seed
        /\ InSeedRun => (max_attempts = 1 /\ launches = 0 /\ ~level_dat.exists /\ ~world_data)
        /\ (pc = "seed_check") => (launches = 1 /\ level_dat.exists /\ level_dat = created)
        /\ (InSeedRun \/ pc = "seed_check") => (spawn_writes = 0 /\ seed_writes = 0)
        /\ (spawn_writes > 0) =>
              (created.exists /\ Some(level_dat.seed) = seed /\ pc # "seed_check" /\ ~InSeedRun)

C15_Witness ==
    /\ SeedNoWorld /\ pc = "seed_check"
    /\ launches = 1 /\ server_properties = seed /\ Some(level_dat.seed) # seed

\* Window number k (from 0) of the grid, dx the outer index: its anchor chunk.
WindowAnchor(k) ==
    <<min_spawn_chunk_x + spawn_chunk_diameter * (k \div step_diameter),
      min_spawn_chunk_z + spawn_chunk_diameter * (k % step_diameter)>>

InWindowRun == pc = "run_server" /\ ret = "window_done"

\* C16: the windows are taken in the order dx outer, dz inner, each once; while
\* a window's server run is on, the spawn is that window's anchor block and was
\* the last thing written; the progress counter is the number of windows whose
\* run has completed, and it is step_diameter^2 when the loops are over.
C16_WindowProtocol ==
    (Planned /\ pc # "raised") =>
        LET k == IF pc = "window_done" THEN i + 1 ELSE i
            started == IF InWindowRun \/ pc = "window_done" THEN i + 1 ELSE i
        IN  /\ runs_ok = k
            /\ visited = {WindowAnchor(j) : j \in 0..(started - 1)}
            /\ Cardinality(visited) = started
            /\ spawn_writes = started + final_writes
            /\ (pc \in {"set_spawn", "window_done"} \/ InWindowRun) =>
                  /\ i < total_steps
                  /\ i = dx * step_diameter + dz /\ dz < step_diameter
            /\ (InWindowRun \/ pc = "window_done") =>
                  /\ last_spawn_write = "window"
                  /\ level_dat.SpawnX = AnchorBlock(min_spawn_chunk_x, dx)
                  /\ level_dat.SpawnZ = AnchorBlock(min_spawn_chunk_z, dz)
                  /\ <<min_spawn_chunk_x + spawn_chunk_diameter * dx,
                       min_spawn_chunk_z + spawn_chunk_diameter * dz>> = WindowAnchor(i)
            /\ (pc \in {"final", "done"}) => i = step_diameter * step_diameter

C16_Witness ==
    /\ Planned /\ InWindowRun /\ step_diameter = 2
    /\ i = 2 /\ dx = 1 /\ dz = 0 /\ launches = 1
    /\ level_dat.SpawnX = AnchorBlock(min_spawn_chunk_x, 1)
    /\ level_dat.SpawnZ = AnchorBlock(min_spawn_chunk_z, 0)

\* C19: with a seed, a window's server run is only on while level.dat exists
\* and holds the requested seed, whichever way the seed got there.
C19_SeedInvariant ==
    (cmd = "pregen" /\ seed # None /\ InWindowRun) =>
        (level_dat.exists /\ Some(level_dat_get_seed(level_dat)) = seed)

C19_Witness ==
    /\ cmd = "pregen" /\ seed # None /\ InWindowRun /\ launches = 1
    /\ SeedNoWorld /\ seed_writes = 1 /\ Some(created.seed) # seed

\* C20: a pregen without a seed that finds no level.dat ends, once planned, on
\* the failure of the first spawn write, with no spawn written and no server
\* launched; and a window's server run is only on while level.dat exists.
C20_MissingWorld ==
    /\ (cmd = "pregen" /\ seed = None /\ ~pre.exists) =>
          /\ pc \in {"plan", "set_spawn", "raised"}
          /\ ~level_dat.exists /\ ~launched
          /\ spawn_writes = 0 /\ runs_ok = 0 /\ visited = {}
    /\ (cmd = "pregen" /\ InWindowRun) => level_dat.exists

C20_Witness ==
    /\ cmd = "pregen" /\ seed = None /\ ~pre.exists
    /\ pc = "raised" /\ total_steps = 4 /\ ~launched

\* C17: within one process, a second call of a memoized lookup with the same
\* key is answered from memory: the wrapped function runs at most once per
\* key, and no URL is fetched twice.
C17_Memoization ==
    /\ \A k \in CallKeys : underlying[k] <= 1
    /\ \A u \in Urls : requests[u] <= 1

====
